---- MODULE Spec2Model ----
(***************************************************************************)
(* A model of the privacy checker's scan pipeline (src/app.py): the scorer, *)
(* the security-header check, the HTML sanitizer, the preview cache and the *)
(* scan orchestrator run_full_scan.                                         *)
(*                                                                          *)
(* Header names, tag and attribute names, attribute values and text are      *)
(* strings; Slice, Lower, Strip and StartsWith read them by character.       *)
(***************************************************************************)
EXTENDS Integers, Sequences, FiniteSets, TLC

VARIABLES
    \* compute_security_score: its three arguments, its return value
    missing_headers_count, trackers_count, has_https, score, pcScore,
    \* check_security_headers: the header mapping's keys, the returned list
    headers, findings, pcHeaders,
    \* sanitize_html: the markup given, the result, the result of a second pass
    html, cleaned, cleaned2, pcSan,
    \* the process: the module-level cache and flag, and the world it fetches from
    preview_cache, PLAYWRIGHT_AVAILABLE, site,
    \* what the sequential callers observed: the first get_preview call per URL,
    \* the latest get_preview call, the latest run_full_scan call
    first, lastPreview, result,
    \* concurrent get_preview calls: one record per thread, and the write log
    threads, fetched, lastWrite

scoreVars == <<missing_headers_count, trackers_count, has_https, score, pcScore>>
headerVars == <<headers, findings, pcHeaders>>
sanVars == <<html, cleaned, cleaned2, pcSan>>
procVars == <<preview_cache, PLAYWRIGHT_AVAILABLE, site>>
scanVars == <<first, lastPreview, result>>
concVars == <<threads, fetched, lastWrite>>
vars == <<scoreVars, headerVars, sanVars, procVars, scanVars, concVars>>

(***************************************************************************)
(* Python's str operations.                                                 *)
(***************************************************************************)

\* str.lower() on one character (the ASCII letters).
LowerChar(c) ==
    CASE c = "A" -> "a" [] c = "B" -> "b" [] c = "C" -> "c" [] c = "D" -> "d"
      [] c = "E" -> "e" [] c = "F" -> "f" [] c = "G" -> "g" [] c = "H" -> "h"
      [] c = "I" -> "i" [] c = "J" -> "j" [] c = "K" -> "k" [] c = "L" -> "l"
      [] c = "M" -> "m" [] c = "N" -> "n" [] c = "O" -> "o" [] c = "P" -> "p"
      [] c = "Q" -> "q" [] c = "R" -> "r" [] c = "S" -> "s" [] c = "T" -> "t"
      [] c = "U" -> "u" [] c = "V" -> "v" [] c = "W" -> "w" [] c = "X" -> "x"
      [] c = "Y" -> "y" [] c = "Z" -> "z" [] OTHER -> c

\* s[i:j] for 1-based i..j
Slice(s, i, j) == SubSeq(s, i, j)

\* str.lower()
RECURSIVE Lower(_)
Lower(s) ==
    IF Len(s) = 0 THEN ""
    ELSE LowerChar(Slice(s, 1, 1)) \o Lower(Slice(s, 2, Len(s)))

\* str.startswith(prefix)
StartsWith(s, prefix) ==
    /\ Len(s) >= Len(prefix)
    /\ Slice(s, 1, Len(prefix)) = prefix

IsSpace(c) == c \in {" ", "\t", "\n", "\r"}

\* str.strip(): leading and trailing whitespace removed
RECURSIVE LStrip(_)
LStrip(s) ==
    IF Len(s) > 0 /\ IsSpace(Slice(s, 1, 1)) THEN LStrip(Slice(s, 2, Len(s))) ELSE s

RECURSIVE RStrip(_)
RStrip(s) ==
    IF Len(s) > 0 /\ IsSpace(Slice(s, Len(s), Len(s)))
      THEN RStrip(Slice(s, 1, Len(s) - 1))
      ELSE s

Strip(s) == RStrip(LStrip(s))

Min(a, b) == IF a < b THEN a ELSE b

(***************************************************************************)
(* The scorer.                                                              *)
(***************************************************************************)

MaxCount == 10

compute_security_score_noclamp(m, t, h) ==
    100 - 20 * m - 10 * t - (IF ~h THEN 30 ELSE 0)

compute_security_score(m, t, h) ==
    LET s1 == 100 - 20 * m
        s2 == s1 - 10 * t
        s3 == IF ~h THEN s2 - 30 ELSE s2
    IN  IF s3 < 0 THEN 0 ELSE s3

ScoreInit ==
    /\ missing_headers_count \in 0..MaxCount
    /\ trackers_count \in 0..MaxCount
    /\ has_https \in BOOLEAN
    /\ score = 0
    /\ pcScore = "call"

ScoreIdle ==
    /\ missing_headers_count = 0
    /\ trackers_count = 0
    /\ has_https = TRUE
    /\ score = 0
    /\ pcScore = "idle"

ComputeScore ==
    /\ pcScore = "call"
    /\ score' = compute_security_score(missing_headers_count, trackers_count, has_https)
    /\ pcScore' = "done"
    /\ UNCHANGED <<missing_headers_count, trackers_count, has_https>>
    /\ UNCHANGED <<headerVars, sanVars, procVars, scanVars, concVars>>

(***************************************************************************)
(* The security-header check.                                               *)
(***************************************************************************)

\* Header names as a server may send them.
CSP_Pretty == "Content-Security-Policy"
HSTS_Pretty == "Strict-Transport-Security"
XFO_Pretty == "X-Frame-Options"
XCTO_Pretty == "X-Content-Type-Options"
XXP_Pretty == "X-XSS-Protection"
RP_Pretty == "Referrer-Policy"
CSP_AsLower == "content-security-policy"
HSTS_AsUpper == "STRICT-TRANSPORT-SECURITY"
XFO_AsLower == "x-frame-options"
ServerHeader == "Server"

HeaderNames ==
    {CSP_Pretty, CSP_AsLower, HSTS_Pretty, HSTS_AsUpper, XFO_Pretty, XFO_AsLower,
     XCTO_Pretty, XXP_Pretty, RP_Pretty, ServerHeader}

MissingPrefix == "Missing security header: "

\* The `required` dict, in its insertion order (lines 71-75).
required ==
    << [k |-> "content-security-policy", pretty |-> "Content-Security-Policy"],
       [k |-> "strict-transport-security", pretty |-> "Strict-Transport-Security"],
       [k |-> "x-frame-options", pretty |-> "X-Frame-Options"] >>

\* lower_keys = {k.lower() for k in headers.keys()} if headers else set()
lower_keys_nolower(hs) == hs

lower_keys(hs) == IF hs # {} THEN {Lower(k) : k \in hs} ELSE {}

\* The loop of lines 77-80 over the entries req of `required`.
RECURSIVE missing_findings(_, _)
missing_findings(req, lk) ==
    IF req = <<>> THEN <<>>
    ELSE (IF Head(req).k \notin lk
            THEN << MissingPrefix \o Head(req).pretty >>
            ELSE <<>>)
         \o missing_findings(Tail(req), lk)

check_security_headers(hs) == missing_findings(required, lower_keys(hs))

HeadersInit ==
    /\ headers \in SUBSET HeaderNames
    /\ findings = <<>>
    /\ pcHeaders = "call"

HeadersIdle ==
    /\ headers = {}
    /\ findings = <<>>
    /\ pcHeaders = "idle"

CheckHeaders ==
    /\ pcHeaders = "call"
    /\ findings' = check_security_headers(headers)
    /\ pcHeaders' = "done"
    /\ UNCHANGED headers
    /\ UNCHANGED <<scoreVars, sanVars, procVars, scanVars, concVars>>

(***************************************************************************)
(* The sanitizer.  Markup is a sequence of tokens (start tags with their    *)
(* attributes, end tags, runs of text); BeautifulSoup's html.parser tree     *)
(* builder turns it into a tree and str(soup) turns the tree back into      *)
(* markup.                                                                  *)
(***************************************************************************)

MaxTokens == 3

\* Tag names, attribute names and attribute values of the inputs.
t_div == "div"
t_a == "a"
t_img == "img"
t_script == "script"
t_SCRIPT == "SCRIPT"
n_onclick == "onclick"
n_onload == "onload"
n_ONLOAD == "ONLOAD"
n_href == "href"
n_HREF == "HREF"
n_src == "src"
n_class == "class"
v_alert1 == "alert(1)"
v_js == "javascript:alert(2)"
v_js_padded == " JavaScript:alert(2) "
v_ok == "/ok"
v_c == "c"
s_Hello == "Hello"
s_evil == "evil()"
s_link == "link"
p_on == "on"
p_javascript == "javascript:"

StartTok(nm, as) == [type |-> "start", name |-> nm, attrs |-> as, data |-> ""]
EndTok(nm) == [type |-> "end", name |-> nm, attrs |-> <<>>, data |-> ""]
TextTok(s) == [type |-> "text", name |-> "", attrs |-> <<>>, data |-> s]
Attr(nm, v) == [name |-> nm, val |-> v]

TextNode(s) == [kind |-> "text", name |-> "", attrs |-> <<>>, children |-> <<>>, data |-> s]
TagNode(nm, as, ch) ==
    [kind |-> "tag", name |-> nm, attrs |-> as, children |-> ch, data |-> ""]

\* Elements html.parser's tree builder closes as soon as they open.
VoidTags == {t_img}

\* tag.attrs: the start tag's attributes with their names lower-cased as
\* HTMLParser reports them; a repeated name keeps its place and takes the last value.
RECURSIVE AttrDict(_, _)
AttrDict(pairs, acc) ==
    IF pairs = <<>> THEN acc
    ELSE LET p == Attr(Lower(Head(pairs).name), Head(pairs).val)
         IN  IF \E i \in 1..Len(acc) : acc[i].name = p.name
               THEN AttrDict(Tail(pairs),
                        [i \in 1..Len(acc) |-> IF acc[i].name = p.name THEN p ELSE acc[i]])
               ELSE AttrDict(Tail(pairs), Append(acc, p))

\* The tree builder's stack of open elements; stack[1] is the document.
Document == [name |-> "", attrs |-> <<>>, children |-> <<>>]

PopTop(stack) ==
    LET n == Len(stack)
        top == stack[n]
    IN  [SubSeq(stack, 1, n - 1) EXCEPT
            ![n - 1].children = Append(@, TagNode(top.name, top.attrs, top.children))]

\* _popToTag: close elements up to and including the most recent one named nm.
RECURSIVE PopTo(_, _)
PopTo(stack, nm) ==
    IF stack[Len(stack)].name = nm THEN PopTop(stack) ELSE PopTo(PopTop(stack), nm)

RECURSIVE CloseAll(_)
CloseAll(stack) == IF Len(stack) = 1 THEN stack[1].children ELSE CloseAll(PopTop(stack))

RECURSIVE ParseRec(_, _)
ParseRec(toks, stack) ==
    IF toks = <<>> THEN CloseAll(stack)
    ELSE LET t == Head(toks)
             n == Len(stack)
             nm == Lower(t.name)
         IN  CASE t.type = "text" ->
                    ParseRec(Tail(toks),
                        [stack EXCEPT ![n].children = Append(@, TextNode(t.data))])
               [] t.type = "start" /\ nm \in VoidTags ->
                    ParseRec(Tail(toks),
                        [stack EXCEPT ![n].children =
                            Append(@, TagNode(nm, AttrDict(t.attrs, <<>>), <<>>))])
               [] t.type = "start" /\ nm \notin VoidTags ->
                    ParseRec(Tail(toks),
                        Append(stack, [name |-> nm, attrs |-> AttrDict(t.attrs, <<>>),
                                       children |-> <<>>]))
               [] t.type = "end" /\ (\E i \in 2..n : stack[i].name = nm) ->
                    ParseRec(Tail(toks), PopTo(stack, nm))
               [] OTHER -> ParseRec(Tail(toks), stack)

\* BeautifulSoup(html, "html.parser"): the document's children.
Parse(toks) == ParseRec(toks, <<Document>>)

RECURSIVE Tokens(_)
Tokens(nodes) ==
    IF nodes = <<>> THEN <<>>
    ELSE LET n == Head(nodes)
         IN  (CASE n.kind = "text" -> <<TextTok(n.data)>>
                [] n.kind = "tag" /\ n.name \in VoidTags -> <<StartTok(n.name, n.attrs)>>
                [] OTHER -> <<StartTok(n.name, n.attrs)>> \o Tokens(n.children)
                                \o <<EndTok(n.name)>>)
             \o Tokens(Tail(nodes))

\* Text nodes that follow one another are written as one run of text.
RECURSIVE MergeText(_)
MergeText(toks) ==
    IF Len(toks) < 2 THEN toks
    ELSE IF toks[1].type = "text" /\ toks[2].type = "text"
           THEN MergeText(<<TextTok(toks[1].data \o toks[2].data)>> \o SubSeq(toks, 3, Len(toks)))
           ELSE <<toks[1]>> \o MergeText(Tail(toks))

\* str(soup)
Serialize(nodes) == MergeText(Tokens(nodes))

\* soup.find_all("script") followed by decompose() of each: every script element
\* leaves the tree with all it contains.
RECURSIVE DecomposeAll(_)
DecomposeAll(nodes) ==
    IF nodes = <<>> THEN <<>>
    ELSE LET n == Head(nodes)
         IN  (CASE n.kind = "tag" /\ n.name = t_script -> <<>>
                [] n.kind = "tag" /\ n.name # t_script ->
                      <<TagNode(n.name, n.attrs, DecomposeAll(n.children))>>
                [] OTHER -> <<n>>)
             \o DecomposeAll(Tail(nodes))

\* Only the first script element in document order leaves the tree.
RECURSIVE DecomposeFirst(_)
DecomposeFirst(nodes) ==
    IF nodes = <<>> THEN [nodes |-> <<>>, found |-> FALSE]
    ELSE LET n == Head(nodes)
         IN  IF n.kind = "tag" /\ n.name = t_script
               THEN [nodes |-> Tail(nodes), found |-> TRUE]
               ELSE LET inner == DecomposeFirst(n.children)
                        rest == DecomposeFirst(Tail(nodes))
                    IN  IF n.kind = "tag" /\ inner.found
                          THEN [nodes |-> <<TagNode(n.name, n.attrs, inner.nodes)>>
                                            \o Tail(nodes),
                                found |-> TRUE]
                          ELSE [nodes |-> <<n>> \o rest.nodes, found |-> rest.found]

remove_scripts_first(nodes) == DecomposeFirst(nodes).nodes

\* Lines 142-143.
remove_scripts(nodes) == DecomposeAll(nodes)

removed_attr_nostrip(a) ==
    \/ StartsWith(Lower(a.name), p_on)
    \/ /\ Lower(a.name) \in {n_href, n_src}
       /\ StartsWith(Lower(a.val), p_javascript)

\* Lines 149-153: whether the loop deletes attribute a.  Every value is a str here
\* (href and src are never multi-valued).
removed_attr(a) ==
    \/ StartsWith(Lower(a.name), p_on)
    \/ /\ Lower(a.name) \in {n_href, n_src}
       /\ StartsWith(Lower(Strip(a.val)), p_javascript)

kept_attr(a) == ~removed_attr(a)

\* Lines 146-153: for tag in soup.find_all(True), over a copy of tag.attrs.
RECURSIVE strip_attrs(_)
strip_attrs(nodes) ==
    IF nodes = <<>> THEN <<>>
    ELSE LET n == Head(nodes)
         IN  (IF n.kind = "tag"
                THEN <<TagNode(n.name, SelectSeq(n.attrs, kept_attr), strip_attrs(n.children))>>
                ELSE <<n>>)
             \o strip_attrs(Tail(nodes))

sanitize_html(markup) == Serialize(strip_attrs(remove_scripts(Parse(markup))))

\* The inputs: every markup of at most MaxTokens tokens over these tokens, and
\* the markup of tests/test_sanitize.py.
AttrLists ==
    { <<>>,
      <<Attr(n_onclick, v_alert1)>>,
      <<Attr(n_href, v_js)>>,
      <<Attr(n_HREF, v_js_padded), Attr(n_class, v_c)>>,
      <<Attr(n_href, v_ok)>>,
      <<Attr(n_onclick, v_alert1), Attr(n_ONLOAD, v_alert1)>> }

InputTokens ==
    {StartTok(t_div, as) : as \in AttrLists}
    \cup {StartTok(t_a, as) : as \in {<<>>, <<Attr(n_href, v_js)>>, <<Attr(n_href, v_ok)>>}}
    \cup {StartTok(t_img, as) : as \in {<<Attr(n_src, v_js)>>,
                                        <<Attr(n_src, v_ok), Attr(n_onload, v_alert1)>>}}
    \cup {StartTok(t_script, <<>>), StartTok(t_script, <<Attr(n_src, v_ok)>>),
          StartTok(t_SCRIPT, <<>>)}
    \cup {EndTok(t_div), EndTok(t_a), EndTok(t_script)}
    \cup {TextTok(s_Hello), TextTok(s_evil)}

IsScriptStart(t) == t.type = "start" /\ Lower(t.name) = t_script
IsScriptEnd(t) == t.type = "end" /\ Lower(t.name) = t_script

\* A token sequence that is the reading of some markup string: text is one run
\* until the next tag, and what follows <script> is text up to </script>.
ValidMarkup(toks) ==
    \A i \in 1..Len(toks) :
        /\ (toks[i].type = "text" /\ i < Len(toks)) => toks[i + 1].type # "text"
        /\ (IsScriptStart(toks[i]) /\ i < Len(toks)) =>
              \/ IsScriptEnd(toks[i + 1])
              \/ /\ toks[i + 1].type = "text"
                 /\ i + 1 < Len(toks) => IsScriptEnd(toks[i + 2])

TestMarkup ==
    << StartTok(t_div, <<Attr(n_onclick, v_alert1)>>), TextTok(s_Hello),
       StartTok(t_script, <<>>), TextTok(s_evil), EndTok(t_script),
       StartTok(t_a, <<Attr(n_href, v_js)>>), TextTok(s_link), EndTok(t_a),
       EndTok(t_div) >>

Markups ==
    {TestMarkup} \cup
    UNION {{m \in [1..n -> InputTokens] : ValidMarkup(m)} : n \in 0..MaxTokens}

SanInit ==
    /\ html \in Markups
    /\ cleaned = <<>>
    /\ cleaned2 = <<>>
    /\ pcSan = "call"

SanIdle ==
    /\ html = <<>>
    /\ cleaned = <<>>
    /\ cleaned2 = <<>>
    /\ pcSan = "idle"

\* cleaned = sanitize_html(html)
Sanitize ==
    /\ pcSan = "call"
    /\ cleaned' = sanitize_html(html)
    /\ pcSan' = "once"
    /\ UNCHANGED <<html, cleaned2>>
    /\ UNCHANGED <<scoreVars, headerVars, procVars, scanVars, concVars>>

\* sanitize_html applied to its own output
SanitizeAgain ==
    /\ pcSan = "once"
    /\ cleaned2' = sanitize_html(cleaned)
    /\ pcSan' = "twice"
    /\ UNCHANGED <<html, cleaned>>
    /\ UNCHANGED <<scoreVars, headerVars, procVars, scanVars, concVars>>

(***************************************************************************)
(* The world the process fetches from: URLs, the pages a site serves, and   *)
(* the outcomes of requests.get and of render_with_playwright.              *)
(***************************************************************************)

\* `sub in s`
Contains(s, sub) ==
    \E i \in 1..(Len(s) - Len(sub) + 1) : Slice(s, i, i + Len(sub) - 1) = sub

\* s.find(c) + 1 for a character c: 0 when s has none
FirstIndex(s, c) ==
    IF \E i \in 1..Len(s) : Slice(s, i, i) = c
      THEN CHOOSE i \in 1..Len(s) :
              /\ Slice(s, i, i) = c
              /\ \A j \in 1..(i - 1) : Slice(s, j, j) # c
      ELSE 0

\* urlparse(url).scheme: the text before the first ":", lower-cased, when it
\* is a scheme name (no "/" in it); "" otherwise.
UrlScheme(url) ==
    LET i == FirstIndex(url, ":")
    IN  IF i > 1 /\ ~Contains(Slice(url, 1, i - 1), "/")
          THEN Lower(Slice(url, 1, i - 1))
          ELSE ""

\* urlparse(url).netloc: what follows "scheme://" up to the next "/".
UrlHost(url) ==
    LET i == FirstIndex(url, ":")
        rest == IF UrlScheme(url) = "" THEN url ELSE Slice(url, i + 1, Len(url))
        after == Slice(rest, 3, Len(rest))
        j == FirstIndex(after, "/")
    IN  IF StartsWith(rest, "//")
          THEN (IF j = 0 THEN after ELSE Slice(after, 1, j - 1))
          ELSE ""

U_https == "https://example.com"
U_http == "http://example.com"
U_bare == "example.com"
\* The URLs the sequential callers pass.
Urls == {U_https, U_bare}

X10 == "xxxxxxxxxx"
X100 == X10 \o X10 \o X10 \o X10 \o X10 \o X10 \o X10 \o X10 \o X10 \o X10
X900 == X100 \o X100 \o X100 \o X100 \o X100 \o X100 \o X100 \o X100 \o X100

\* The two pages of tests/test_cache.py, and a long page with the two scripts
\* of tests/test_security.py.
PageFirst ==
    << StartTok("html", <<>>), StartTok("body", <<>>), TextTok("First"),
       EndTok("body"), EndTok("html") >>

PageSecond ==
    << StartTok("html", <<>>), StartTok("body", <<>>), TextTok("Second"),
       EndTok("body"), EndTok("html") >>

PageLong ==
    << StartTok("script",
           <<Attr("src", "https://www.googletagmanager.com/gtag/js?id=UA-XXXX")>>),
       EndTok("script"),
       StartTok("script", <<>>), TextTok("fbq('init', '12345');"), EndTok("script"),
       StartTok("div", <<Attr("onclick", "alert(1)")>>), TextTok(X900), EndTok("div") >>

Pages == {PageFirst, PageSecond, PageLong}

\* The `headers` of a response.
HeaderSets == { {ServerHeader}, {CSP_AsLower, HSTS_AsUpper, XFO_Pretty, ServerHeader} }

\* Where a GET of url may end after redirects: resp.url.
FinalUrls(url) == {url, U_http}

Raised(why) ==
    [raised |-> TRUE, error |-> why, status_code |-> 0, url |-> "", headers |-> {},
     text |-> <<>>]

Response(status, final, hs, page) ==
    [raised |-> FALSE, error |-> "", status_code |-> status, url |-> final,
     headers |-> hs, text |-> page]

\* requests.get(url, timeout=...): requests refuses a URL without a scheme or
\* without a host before any connection is made; any other request may fail on
\* the network, or bring back an error status, or bring back what the site serves.
GetOutcomes(url, page) ==
    IF UrlScheme(url) = "" THEN {Raised("MissingSchema")}
    ELSE IF UrlHost(url) = "" THEN {Raised("InvalidURL")}
    ELSE {Raised("ConnectionError"), Response(404, url, {}, page)}
         \cup {Response(200, f, hs, page) : f \in FinalUrls(url), hs \in HeaderSets}

\* resp.raise_for_status() raises
IsHttpError(resp) == resp.status_code >= 400

None == "None"

\* The body text a render returns, read as markup (line 182); <<>> is None or "",
\* which line 179 does not tell apart.
RenderedMarkup ==
    << StartTok("html", <<>>), StartTok("body", <<>>), TextTok("Rendered"),
       EndTok("body"), EndTok("html") >>

Rendered(text, shot, err) == [text |-> text, screenshot |-> shot, error |-> err]

\* render_with_playwright(url): lines 38-39 when Playwright is not installed;
\* otherwise the browser times out, fails, or returns the body text and a
\* screenshot (None when the screenshot is empty).
RenderOutcomes(available) ==
    IF ~available THEN {Rendered(<<>>, None, "Playwright not available")}
    ELSE {Rendered(<<>>, None, "Playwright timeout: t"),
          Rendered(<<>>, None, "Playwright error: e")}
         \cup {Rendered(RenderedMarkup, "YmFzZTY0", None),
               Rendered(<<TextTok(X900)>>, "YmFzZTY0", None),
               Rendered(<<>>, None, None)}

\* soup.get_text(): the text of every text node, in document order
RECURSIVE GetText(_)
GetText(nodes) ==
    IF nodes = <<>> THEN ""
    ELSE (IF Head(nodes).kind = "text" THEN Head(nodes).data
                                      ELSE GetText(Head(nodes).children))
         \o GetText(Tail(nodes))

\* soup.find_all("script"), in document order
RECURSIVE FindScripts(_)
FindScripts(nodes) ==
    IF nodes = <<>> THEN <<>>
    ELSE LET n == Head(nodes)
         IN  (IF n.kind = "tag" /\ n.name = "script" THEN <<n>> ELSE <<>>)
             \o (IF n.kind = "tag" THEN FindScripts(n.children) ELSE <<>>)
             \o FindScripts(Tail(nodes))

\* tag.get(name): the attribute's value, or None
GetAttr(tag, nm) ==
    IF \E i \in 1..Len(tag.attrs) : tag.attrs[i].name = nm
      THEN tag.attrs[CHOOSE i \in 1..Len(tag.attrs) : tag.attrs[i].name = nm].val
      ELSE None

\* tag.string: the only child when it is a text node, else None
TagString(tag) ==
    IF Len(tag.children) = 1 /\ tag.children[1].kind = "text"
      THEN tag.children[1].data
      ELSE None

\* Lines 90-104 for one script element: the labels its text matches.
script_trackers(script) ==
    LET src == IF GetAttr(script, "src") = None THEN "" ELSE Lower(GetAttr(script, "src"))
        content == IF TagString(script) = None THEN "" ELSE Lower(TagString(script))
        combined == src \o " " \o content
    IN  (IF \/ Contains(combined, "googletagmanager")
            \/ Contains(combined, "google-analytics")
            \/ Contains(combined, "analytics.js")
            \/ Contains(combined, "gtag(")
            \/ Contains(combined, "ga(")
           THEN {"Google Analytics"} ELSE {})
        \cup (IF Contains(combined, "fbq(") \/ Contains(combined, "facebook")
                THEN {"Facebook Pixel"} ELSE {})
        \cup (IF Contains(combined, "adsbygoogle") THEN {"Google AdSense"} ELSE {})
        \cup (IF Contains(combined, "doubleclick") \/ Contains(combined, "g.doubleclick")
                THEN {"DoubleClick"} ELSE {})
        \cup (IF Contains(combined, "quantserve") \/ Contains(combined, "scorecardresearch")
                THEN {"Tracking / Ad Network"} ELSE {})

\* The five labels in the order sorted() gives them.
SortedLabels ==
    << "DoubleClick", "Facebook Pixel", "Google AdSense", "Google Analytics",
       "Tracking / Ad Network" >>

detect_trackers(soup) ==
    LET scripts == FindScripts(soup)
        trackers == UNION {script_trackers(scripts[i]) : i \in 1..Len(scripts)}
        found(label) == label \in trackers
    IN  SelectSeq(SortedLabels, found)

\* check_https(url, response=resp): resp has a url, so the final URL decides.
check_https(url, resp) ==
    LET final == resp.url
        scheme == IF final # "" THEN UrlScheme(final) ELSE ""
    IN  IF Lower(scheme) # "https" THEN <<"Site is not served over HTTPS">> ELSE <<>>

(***************************************************************************)
(* The preview cache and the scan orchestrator.                             *)
(***************************************************************************)

\* The max_chars values other callers pass: the test's and a larger one.
MaxCharsValues == {50, 1000}

\* text[:max_chars]
Truncate(text, max_chars) == Slice(text, 1, Min(Len(text), max_chars))

\* preview_cache[url] = snippet
CachePut(cache, url, snippet) ==
    [u \in (DOMAIN cache) \cup {url} |-> IF u = url THEN snippet ELSE cache[u]]

NotFetched == Raised("not fetched")

\* How get_preview's requests.get (line 27) may end; get_preview reads only the
\* response's text, so responses that differ elsewhere are one case.  On a
\* cache hit there is no request.
PreviewFetches(cache, url, page) ==
    IF url \in DOMAIN cache THEN {NotFetched}
    ELSE {r \in GetOutcomes(url, page) : r.raised \/ (r.url = url /\ r.headers = {})}

\* get_preview(url, use_js, max_chars) when its requests.get, if made, ends as
\* r: the cache afterwards, how the call ends, the value returned, the number
\* of requests.get calls made and the URL they were given.
get_preview(cache, url, max_chars, r) ==
    IF url \in DOMAIN cache
      THEN [cache |-> cache, outcome |-> "returned", value |-> cache[url], fetches |-> 0,
            url |-> url]
    ELSE IF r.raised
      THEN [cache |-> cache, outcome |-> "raised", value |-> "", fetches |-> 1,
            url |-> url]
    ELSE LET text == GetText(Parse(r.text))
             snippet == Truncate(text, max_chars)
         IN  [cache |-> CachePut(cache, url, snippet), outcome |-> "returned",
              value |-> snippet, fetches |-> 1, url |-> url]

\* The record of one get_preview call, for the caller that counts fetches.
PreviewRecord(url, max_chars, p, seen) ==
    [url |-> url, max_chars |-> max_chars, outcome |-> p.outcome, value |-> p.value,
     fetches |-> p.fetches, later |-> seen]

NoPreview ==
    [url |-> "", max_chars |-> 0, outcome |-> "none", value |-> "", fetches |-> 0,
     later |-> FALSE]

\* The first get_preview call made for a URL: how it ended and what it returned.
NoCall == [outcome |-> "none", value |-> ""]

\* base64.b64encode(s.encode("utf-8")).decode("ascii")
B64(s) == [b64 |-> s]

\* Lines 166-223 of run_full_scan, after a successful requests.get and
\* raise_for_status: resp is the response, rendered the render's outcome (used
\* when use_js), p what get_preview did (used when line 202 calls it).
scan_result(url, use_js, resp, rendered, p, available) ==
    LET failed == use_js /\ rendered.error # None
        render_info == IF ~use_js THEN None
                       ELSE IF failed THEN rendered.error
                       ELSE "Rendered via Playwright"
        screenshot_b64 == IF use_js /\ ~failed THEN rendered.screenshot ELSE None
        raw_html == IF use_js /\ ~failed THEN rendered.text ELSE resp.text
        soup == Parse(raw_html)
        header_findings == check_security_headers(resp.headers)
        tracker_findings == detect_trackers(soup)
        https_findings == check_https(url, resp)
        security_score == compute_security_score(Len(header_findings),
                              Len(tracker_findings), Len(https_findings) = 0)
        preview == IF use_js /\ render_info = "Rendered via Playwright"
                     THEN Truncate(GetText(soup), 800)
                     ELSE p.value
        sanitized_html == IF raw_html # <<>> THEN sanitize_html(raw_html) ELSE <<>>
        base == [url |-> resp.url,
                 security_score |-> security_score,
                 findings |-> header_findings \o tracker_findings \o https_findings,
                 preview |-> preview,
                 raw_html |-> raw_html,
                 sanitized_html |-> sanitized_html,
                 sanitized_html_b64 |->
                     IF sanitized_html # <<>> THEN B64(sanitized_html) ELSE None,
                 playwright |-> [available |-> available, info |-> render_info]]
    IN  IF screenshot_b64 # None
          THEN [k \in (DOMAIN base) \cup {"screenshot"} |->
                   IF k = "screenshot" THEN screenshot_b64 ELSE base[k]]
          ELSE base

\* The record of one run_full_scan call: its arguments, the URLs it passed to
\* requests.get and to render_with_playwright, how its own requests.get ended
\* ("ok", "failed"), how the render ended ("none" when not tried, "ok", or the
\* error it reported), and how the call ended ("returned" with the dict in
\* value, or "raised").
ScanRecord(url, use_js, gets, renders, scan_get, render, ended, value) ==
    [url |-> url, use_js |-> use_js, gets |-> gets, renders |-> renders,
     scan_get |-> scan_get, render |-> render, ended |-> ended, value |-> value]

NoScan == ScanRecord("", FALSE, {}, {}, "none", "none", "none", None)

NoRender == Rendered(<<>>, None, None)

\* str(e) of the exception lines 161-162 raise
ErrorText(r) == IF r.raised THEN r.error ELSE "404 Client Error"

ScanInitial ==
    /\ preview_cache = <<>>
    /\ PLAYWRIGHT_AVAILABLE \in BOOLEAN
    /\ site \in Pages
    /\ first = [u \in Urls |-> NoCall]
    /\ lastPreview = NoPreview
    /\ result = NoScan

ScanIdle ==
    /\ first = <<>>
    /\ lastPreview = NoPreview
    /\ result = NoScan

ProcIdle ==
    /\ preview_cache = <<>>
    /\ PLAYWRIGHT_AVAILABLE = FALSE
    /\ site = <<>>

\* The bookkeeping of a get_preview call that ended as p.
NotePreview(url, max_chars, p) ==
    /\ lastPreview' = PreviewRecord(url, max_chars, p, first[url].outcome # "none")
    /\ first' = IF first[url].outcome = "none"
                  THEN [first EXCEPT ![url] = [outcome |-> p.outcome, value |-> p.value]]
                  ELSE first

\* A caller calls get_preview(url, max_chars=mc).
CallGetPreview ==
    \E url \in Urls, mc \in MaxCharsValues :
      \E r \in PreviewFetches(preview_cache, url, site) :
        \E p \in {get_preview(preview_cache, url, mc, r)} :
            /\ preview_cache' = p.cache
            /\ NotePreview(url, mc, p)
            /\ result' = NoScan
            /\ UNCHANGED <<PLAYWRIGHT_AVAILABLE, site>>
            /\ UNCHANGED <<scoreVars, headerVars, sanVars, concVars>>

\* run_full_scan(url, use_js) whose requests.get raised, or brought an error
\* status: lines 160-164.
ScanFetchFails ==
    \E url \in Urls, use_js \in BOOLEAN :
      \E r1 \in GetOutcomes(url, site) :
        /\ r1.raised \/ IsHttpError(r1)
        /\ result' = ScanRecord(url, use_js, {url}, {}, "failed", "none", "returned",
                                [url |-> url, error |-> ErrorText(r1)])
        /\ lastPreview' = NoPreview
        /\ UNCHANGED <<procVars, first>>
        /\ UNCHANGED <<scoreVars, headerVars, sanVars, concVars>>

\* run_full_scan(url, use_js=True) whose render succeeded: line 200 makes the
\* preview, get_preview is not called.
ScanRendered ==
    \E url \in Urls :
      \E r1 \in GetOutcomes(url, site), rendered \in RenderOutcomes(PLAYWRIGHT_AVAILABLE) :
        /\ ~r1.raised /\ ~IsHttpError(r1)
        /\ rendered.error = None
        /\ result' = ScanRecord(url, TRUE, {url}, {url}, "ok", "ok", "returned",
                        scan_result(url, TRUE, r1, rendered, NoPreview,
                                    PLAYWRIGHT_AVAILABLE))
        /\ lastPreview' = NoPreview
        /\ UNCHANGED <<procVars, first>>
        /\ UNCHANGED <<scoreVars, headerVars, sanVars, concVars>>

\* run_full_scan(url, use_js) that reaches line 202: without rendering, or
\* after a render that failed.  get_preview's exception is caught nowhere.
ScanWithPreview ==
    \E url \in Urls, use_js \in BOOLEAN :
      \E r1 \in GetOutcomes(url, site),
         rendered \in (IF use_js THEN RenderOutcomes(PLAYWRIGHT_AVAILABLE) ELSE {NoRender}),
         r2 \in PreviewFetches(preview_cache, url, site) :
        /\ ~r1.raised /\ ~IsHttpError(r1)
        /\ use_js => rendered.error # None
        /\ \E p \in {get_preview(preview_cache, url, 800, r2)} :
            /\ preview_cache' = p.cache
            /\ NotePreview(url, 800, p)
            /\ result' =
                 ScanRecord(url, use_js,
                     IF p.fetches > 0 THEN {url, p.url} ELSE {url},
                     IF use_js THEN {url} ELSE {},
                     "ok", IF use_js THEN rendered.error ELSE "none",
                     IF p.outcome = "raised" THEN "raised" ELSE "returned",
                     IF p.outcome = "raised" THEN None
                     ELSE scan_result(url, use_js, r1, rendered, p, PLAYWRIGHT_AVAILABLE))
        /\ UNCHANGED <<PLAYWRIGHT_AVAILABLE, site>>
        /\ UNCHANGED <<scoreVars, headerVars, sanVars, concVars>>

\* The site starts serving another page.
SiteChange ==
    /\ \E page \in Pages \ {site} : site' = page
    /\ UNCHANGED <<preview_cache, PLAYWRIGHT_AVAILABLE>>
    /\ UNCHANGED <<scoreVars, headerVars, sanVars, scanVars, concVars>>

(***************************************************************************)
(* get_preview called from several threads.  Under the interpreter lock a   *)
(* thread's membership test and read (lines 23-24) and its insert (line 30) *)
(* are atomic; the fetch (line 27) is where threads interleave.             *)
(***************************************************************************)

NThreads == 2

Threads == 1..NThreads

Thread(pc, url, max_chars, resp, value) ==
    [pc |-> pc, url |-> url, max_chars |-> max_chars, resp |-> resp, value |-> value]

ConcInit ==
    /\ threads \in [Threads -> {Thread("check", u, mc, NotFetched, "") :
                                   u \in {U_https, U_http}, mc \in {50, 800}}]
    /\ preview_cache = <<>>
    /\ PLAYWRIGHT_AVAILABLE = FALSE
    /\ site \in Pages
    /\ fetched = {}
    /\ lastWrite = <<>>

ConcIdle ==
    /\ threads = <<>>
    /\ fetched = {}
    /\ lastWrite = <<>>

\* Lines 23-24: a hit returns the cached value.
T_Check ==
    \E t \in Threads :
      /\ threads[t].pc = "check"
      /\ LET th == threads[t]
         IN  threads' = [threads EXCEPT ![t] =
                IF th.url \in DOMAIN preview_cache
                  THEN [th EXCEPT !.pc = "done", !.value = preview_cache[th.url]]
                  ELSE [th EXCEPT !.pc = "fetch"]]
      /\ UNCHANGED <<procVars, fetched, lastWrite>>
      /\ UNCHANGED <<scoreVars, headerVars, sanVars, scanVars>>

\* Line 27: the request raises (the call ends) or brings a response.
T_Fetch ==
    \E t \in Threads :
      /\ threads[t].pc = "fetch"
      /\ \E r \in GetOutcomes(threads[t].url, site) :
            threads' = [threads EXCEPT ![t] =
                IF r.raised THEN [threads[t] EXCEPT !.pc = "raised"]
                            ELSE [threads[t] EXCEPT !.pc = "store", !.resp = r]]
      /\ UNCHANGED <<procVars, fetched, lastWrite>>
      /\ UNCHANGED <<scoreVars, headerVars, sanVars, scanVars>>

\* Lines 28-31: the snippet is cut, stored and returned.
T_Store ==
    \E t \in Threads :
      /\ threads[t].pc = "store"
      /\ LET th == threads[t]
             snippet == Truncate(GetText(Parse(th.resp.text)), th.max_chars)
         IN  /\ preview_cache' = CachePut(preview_cache, th.url, snippet)
             /\ threads' = [threads EXCEPT ![t] = [th EXCEPT !.pc = "done", !.value = snippet]]
             /\ fetched' = fetched \cup {[url |-> th.url, snippet |-> snippet]}
             /\ lastWrite' = CachePut(lastWrite, th.url, snippet)
      /\ UNCHANGED <<PLAYWRIGHT_AVAILABLE, site>>
      /\ UNCHANGED <<scoreVars, headerVars, sanVars, scanVars>>

ConcSiteChange ==
    /\ \E page \in Pages \ {site} : site' = page
    /\ UNCHANGED <<preview_cache, PLAYWRIGHT_AVAILABLE, concVars>>
    /\ UNCHANGED <<scoreVars, headerVars, sanVars, scanVars>>

(***************************************************************************)
(* The specifications.                                                      *)
(***************************************************************************)

\* Sequential calls of get_preview and run_full_scan in one process.
Init == ScoreIdle /\ HeadersIdle /\ SanIdle /\ ScanInitial /\ ConcIdle

Next ==
    \/ CallGetPreview
    \/ ScanFetchFails
    \/ ScanRendered
    \/ ScanWithPreview
    \/ SiteChange

Spec == Init /\ [][Next]_vars

\* compute_security_score on every pair of counts up to MaxCount.
ScoreSpecInit == ScoreInit /\ HeadersIdle /\ SanIdle /\ ProcIdle /\ ScanIdle /\ ConcIdle

ScoreSpec == ScoreSpecInit /\ [][ComputeScore]_vars

\* check_security_headers on every set of header names.
HeadersSpecInit == ScoreIdle /\ HeadersInit /\ SanIdle /\ ProcIdle /\ ScanIdle /\ ConcIdle

HeadersSpec == HeadersSpecInit /\ [][CheckHeaders]_vars

\* sanitize_html on every markup, and on its own output.
SanSpecInit == ScoreIdle /\ HeadersIdle /\ SanInit /\ ProcIdle /\ ScanIdle /\ ConcIdle

SanNext == Sanitize \/ SanitizeAgain

SanSpec == SanSpecInit /\ [][SanNext]_vars

\* Concurrent get_preview calls.
ConcSpecInit == ScoreIdle /\ HeadersIdle /\ SanIdle /\ ScanIdle /\ ConcInit

ConcNext == T_Check \/ T_Fetch \/ T_Store \/ ConcSiteChange

ConcSpec == ConcSpecInit /\ [][ConcNext]_vars

(***************************************************************************)
(* The claims.                                                              *)
(***************************************************************************)

Max(a, b) == IF a > b THEN a ELSE b

\* C1: for all counts m, t >= 0 and every h, compute_security_score(m, t, h) is
\* max(0, 100 - 20*m - 10*t - (0 if h else 30)), so it lies in 0..100; and
\* (0,0,true) gives 100, (2,0,true) 60, (0,3,true) 70, (0,0,false) 70 and
\* (10,10,false) 0.
C1_ScoreIsClampedSum ==
    pcScore = "done" =>
      LET m == missing_headers_count
          t == trackers_count
          h == has_https
      IN  /\ score = Max(0, 100 - 20 * m - 10 * t - (IF h THEN 0 ELSE 30))
          /\ score \in 0..100
          /\ (m = 0 /\ t = 0 /\ h) => score = 100
          /\ (m = 2 /\ t = 0 /\ h) => score = 60
          /\ (m = 0 /\ t = 3 /\ h) => score = 70
          /\ (m = 0 /\ t = 0 /\ ~h) => score = 70
          /\ (m = 10 /\ t = 10 /\ ~h) => score = 0

\* The sum is negative and the score is 0.
C1_Witness ==
    /\ pcScore = "done"
    /\ missing_headers_count = 10 /\ trackers_count = 10 /\ ~has_https
    /\ score = 0

\* The number of findings equal to f.
CountFinding(f) == Cardinality({i \in 1..Len(findings) : findings[i] = f})

\* No key of the mapping is header h in any letter case.
Absent(h) == \A k \in headers : Lower(k) # Lower(h)

Checklist6 == {CSP_Pretty, HSTS_Pretty, XFO_Pretty, XCTO_Pretty, XXP_Pretty, RP_Pretty}

Checklist3 == {CSP_Pretty, HSTS_Pretty, XFO_Pretty}

\* C5 as stated: for every header mapping, check_security_headers emits exactly
\* one finding, naming the pretty label, for each header of the six-header
\* checklist that is absent case-insensitively, and none for one that is present.
C5_SixHeaderChecklist ==
    pcHeaders = "done" =>
      \A h \in Checklist6 :
         CountFinding(MissingPrefix \o h) = (IF Absent(h) THEN 1 ELSE 0)

\* C5 as amended: the same over the checklist {Content-Security-Policy,
\* Strict-Transport-Security, X-Frame-Options}, and no other finding is emitted.
C5_ThreeHeaderChecklist ==
    pcHeaders = "done" =>
      /\ \A h \in Checklist3 :
            CountFinding(MissingPrefix \o h) = (IF Absent(h) THEN 1 ELSE 0)
      /\ Len(findings) = Cardinality({h \in Checklist3 : Absent(h)})

\* Two headers present in other letter cases, the third absent and reported.
C5_Witness ==
    /\ pcHeaders = "done"
    /\ headers = {CSP_AsLower, HSTS_AsUpper, ServerHeader}
    /\ findings = <<"Missing security header: X-Frame-Options">>

\* The elements of a tree, in document order.
RECURSIVE Elements(_)
Elements(nodes) ==
    IF nodes = <<>> THEN <<>>
    ELSE (IF Head(nodes).kind = "tag"
            THEN <<Head(nodes)>> \o Elements(Head(nodes).children)
            ELSE <<>>)
         \o Elements(Tail(nodes))

\* An attribute name that starts with "on" in any letter case.
IsEventHandlerName(nm) == Len(nm) >= 2 /\ Lower(Slice(nm, 1, 2)) = "on"

\* An href or src whose trimmed value starts with "javascript:" in any letter case.
IsJavascriptUrl(a) ==
    /\ Lower(a.name) \in {"href", "src"}
    /\ Len(Strip(a.val)) >= 11
    /\ Lower(Slice(Strip(a.val), 1, 11)) = "javascript:"

Allowed(a) == ~IsEventHandlerName(a.name) /\ ~IsJavascriptUrl(a)

\* The markup of a tree without its script elements and their content, each
\* start tag keeping its allowed attributes.
RECURSIVE Remainder(_)
Remainder(nodes) ==
    IF nodes = <<>> THEN <<>>
    ELSE LET n == Head(nodes)
         IN  (CASE n.kind = "text" -> <<TextTok(n.data)>>
                [] n.kind = "tag" /\ n.name = "script" -> <<>>
                [] n.kind = "tag" /\ n.name # "script" /\ n.name \in VoidTags ->
                      <<StartTok(n.name, SelectSeq(n.attrs, Allowed))>>
                [] OTHER ->
                      <<StartTok(n.name, SelectSeq(n.attrs, Allowed))>>
                          \o Remainder(n.children) \o <<EndTok(n.name)>>)
             \o Remainder(Tail(nodes))

\* C3: the output of sanitize_html has no script element, no attribute whose
\* name starts with "on", no href or src whose trimmed value starts with
\* "javascript:"; every other element, attribute and text of the input tree is
\* there unchanged and in the same order.
C3_SanitizedAndPreserved ==
    pcSan \in {"once", "twice"} =>
      LET out == Elements(Parse(cleaned))
      IN  /\ \A i \in 1..Len(out) :
                /\ out[i].name # "script"
                /\ \A j \in 1..Len(out[i].attrs) :
                      /\ ~IsEventHandlerName(out[i].attrs[j].name)
                      /\ ~IsJavascriptUrl(out[i].attrs[j])
          /\ cleaned = MergeText(Remainder(Parse(html)))

\* The markup of tests/test_sanitize.py, sanitized.
C3_Witness ==
    /\ pcSan = "once"
    /\ html = TestMarkup
    /\ cleaned = << StartTok("div", <<>>), TextTok("Hello"), StartTok("a", <<>>),
                    TextTok("link"), EndTok("a"), EndTok("div") >>

C2_FirstFetchesLaterReuse ==
    lastPreview.outcome # "none" =>
      IF lastPreview.later
        THEN /\ lastPreview.fetches = 0
             /\ lastPreview.outcome = "returned"
             /\ first[lastPreview.url].outcome = "returned"
             /\ lastPreview.value = first[lastPreview.url].value
        ELSE lastPreview.fetches = 1

RenderErrors ==
    {"Playwright not available", "Playwright timeout: t", "Playwright error: e"}

\* C4 as stated: when the scan's fetch succeeds and the render reports an
\* error, run_full_scan(url, use_js=True) returns a result without 'error',
\* with a security_score in 0..100, the render's error in playwright.info and
\* no 'screenshot'.
C4_RenderFallback ==
    (result.use_js /\ result.scan_get = "ok" /\ result.render \in RenderErrors) =>
      /\ result.ended = "returned"
      /\ "error" \notin DOMAIN result.value
      /\ result.value.security_score \in 0..100
      /\ result.value.playwright.info = result.render
      /\ "screenshot" \notin DOMAIN result.value

\* C6 as stated: whatever the url, the flag, the cache and the outcomes of the
\* collaborators, run_full_scan returns a result object, and a failed fetch is
\* reported in its 'error' field.
C6_AlwaysReturns ==
    result.ended # "none" =>
      /\ result.ended = "returned"
      /\ result.scan_get = "failed" => "error" \in DOMAIN result.value

\* The url with "https://" prepended when it has no scheme.
Normalized(url) == IF UrlScheme(url) = "" THEN "https://" \o url ELSE url

\* C7 as stated: run_full_scan gives its collaborators the normalized url
\* only; with a host in it the fetch is issued, without one nothing is.
C7_NormalizedBeforeFetch ==
    result.ended # "none" =>
      /\ result.gets \cup result.renders \subseteq {Normalized(result.url)}
      /\ IF UrlHost(Normalized(result.url)) # ""
           THEN Normalized(result.url) \in result.gets
           ELSE result.gets = {} /\ "error" \in DOMAIN result.value

\* C9 as stated: the preview of every successful run_full_scan result has at
\* most 800 characters, whatever get_preview calls came before.
C9_PreviewWithinCap ==
    (result.ended = "returned" /\ "preview" \in DOMAIN result.value) =>
      Len(result.value.preview) <= 800

AllDone == \A t \in Threads : threads[t].pc \in {"done", "raised"}

\* C10 as stated: when all concurrent get_preview calls have completed, the
\* cache holds an entry for every requested URL, and each entry is the
\* truncated text of a fetch made for its key, the one written last.
C10_EveryUrlCached ==
    (threads # <<>> /\ AllDone) =>
      /\ \A t \in Threads : threads[t].url \in DOMAIN preview_cache
      /\ \A u \in DOMAIN preview_cache :
            /\ preview_cache[u] = lastWrite[u]
            /\ [url |-> u, snippet |-> preview_cache[u]] \in fetched

====
